---- MODULE Spec2Model ----
(***************************************************************************)
(* NTagEventInfo: raw hit buffer, ToF subtraction and sort, the capture    *)
(* candidate search, the saving of a peak as a candidate and the event     *)
(* arrays of candidate variables; NTagTMVAVariables.                       *)
(*                                                                         *)
(* Times are integers in ns.  Hit indices are 0-based as in the code; a    *)
(* std::vector is a sequence and At(v, i) is v[i].  T0TH is held in the    *)
(* code's own unit: the code compares it with a time multiplied by 1.e-3,  *)
(* the model multiplies the comparison through by 1000.                    *)
(***************************************************************************)
EXTENDS Integers, Sequences, FiniteSets, TLC

(***************************************************************************)
(* Bounds of the model.                                                    *)
(***************************************************************************)
\* largest number of hits the trigger windows of one event deliver
MaxHits == 3
\* number of PMTs of the (scaled down) detector: cable ids 1..MAXPM
MAXPM == 2

(***************************************************************************)
(* Program constants.                                                      *)
(***************************************************************************)
NTagDefault_N10TH == 7
NTagDefault_N10MX == 50
NTagDefault_N200MX == 200
NTagDefault_T0TH == 5
NTagDefault_TMINPEAKSEP == 50
\* the 10 ns window of N10 and of a candidate's hit slice
tWidth == 10
\* the 200 ns window of N200, centred 5 ns after the anchor
tWidth200 == 200
tCenterShift == 5
\* initial t0Previous of the search
t0Sentinel == -1
\* value Clear() gives maxN200Time and firstHitTime_ToF
tCleared == -9999
\* in-gate bit of ihtiflz: (1<<1)
InGateBit == 2

VARIABLES
    pc,              \* position in the per-event call sequence of the reader
    N10TH, N10MX, N200MX, T0TH, TMINPEAKSEP, TRBNWIDTH, bUseResidual,
    vTISKZ, vQISKZ, vCABIZ, vPMTHitTime, nqiskz,
    nTotalHits, nRemovedHits,
    vUnsortedT_ToF, vSortedT_ToF, vSortedQ, vSortedPMTID,
    sortedIndex,     \* the array TMath::Sort filled in the last sort
    reverseIndex,
    vCandidates, nCandidates,
    maxN200, maxN200Time, firstHitTime_ToF,
    candidateVariablesInitialized, iCandidateVarMap, fCandidateVarMap,
    \* TMVATools.fVariables, an NTagTMVAVariables, and the branches of its tree
    iVariableMap, fVariableMap, iEventVectorMap, fEventVectorMap, treeBranches,
    tofCall,         \* how the last direct call of GetToFSubtracted ended
    firstRun         \* history: what the first of two equal events gave

conds == <<N10TH, N10MX, N200MX, T0TH, TMINPEAKSEP, TRBNWIDTH, bUseResidual>>
rawv  == <<vTISKZ, vQISKZ, vCABIZ, vPMTHitTime, nqiskz, nTotalHits, nRemovedHits>>
sortv == <<vUnsortedT_ToF, vSortedT_ToF, vSortedQ, vSortedPMTID, sortedIndex, reverseIndex>>
candv == <<vCandidates, nCandidates, maxN200, maxN200Time, firstHitTime_ToF>>
storev == <<candidateVariablesInitialized, iCandidateVarMap, fCandidateVarMap>>
tmvav == <<iVariableMap, fVariableMap, iEventVectorMap, fEventVectorMap, treeBranches>>
auxv  == <<tofCall, firstRun>>
vars  == <<pc, conds, rawv, sortv, candv, storev, tmvav, auxv>>

(***************************************************************************)
(* Helpers on vectors.                                                     *)
(***************************************************************************)
At(v, i) == v[i + 1]

Abs(x) == IF x < 0 THEN -x ELSE x

\* all sequences over S of length 0..n
SeqsUpTo(S, n) == UNION {[1..k -> S] : k \in 0..n}

(***************************************************************************)
(* Inputs: the hits a trigger window can deliver (sktqz_ common block).    *)
(* Two of the in-gate hits share a ToF-subtracted time (0), two more lie   *)
(* within 10 ns of each other (45, 52); one hit is out of gate.            *)
(***************************************************************************)
Hit(t, q, cab, flag) == [tiskz |-> t, qiskz |-> q, icabiz |-> cab, ihtiflz |-> flag]

HitPool ==
    { Hit(0, 1, 1, InGateBit), Hit(3, 2, 2, InGateBit), Hit(45, 3, 1, InGateBit),
      Hit(55, 1, 2, InGateBit),
      Hit(7, 1, 1, 0) }

\* values the setters are called with
N10THVals == {0, 1, 2, NTagDefault_N10TH}
N10MXVals == {1, 2, NTagDefault_N10MX}
N200MXVals == {2, 3, NTagDefault_N200MX}
T0THVals == {-1, 0, NTagDefault_T0TH}
TMINPEAKSEPVals == {0, NTagDefault_TMINPEAKSEP}
\* NTagDefault::TRBNWIDTH is set outside these sources: both a zero and a
\* non-zero dead time are taken
TRBNWIDTHVals == {0, 1}

(***************************************************************************)
(* Setters of the tag conditions.                                          *)
(***************************************************************************)
SetN10Limits(low, high) ==
    /\ N10TH' = low
    /\ N10MX' = high
    /\ UNCHANGED <<pc, N200MX, T0TH, TMINPEAKSEP, TRBNWIDTH, bUseResidual, rawv, sortv, candv, storev, tmvav, auxv>>

SetN200Max(max) ==
    /\ N200MX' = max
    /\ UNCHANGED <<pc, N10TH, N10MX, T0TH, TMINPEAKSEP, TRBNWIDTH, bUseResidual, rawv, sortv, candv, storev, tmvav, auxv>>

SetT0Limits(low) ==
    /\ T0TH' = low
    /\ UNCHANGED <<pc, N10TH, N10MX, N200MX, TMINPEAKSEP, TRBNWIDTH, bUseResidual, rawv, sortv, candv, storev, tmvav, auxv>>

SetTPeakSeparation(t) ==
    /\ TMINPEAKSEP' = t
    /\ UNCHANGED <<pc, N10TH, N10MX, N200MX, T0TH, TRBNWIDTH, bUseResidual, rawv, sortv, candv, storev, tmvav, auxv>>

(***************************************************************************)
(* AppendRawHitInfo: one pass over the hits of the trigger window.         *)
(* The loop state is [T, Q, C, P, tot, rem, off, found].                   *)
(***************************************************************************)
\* the offset taken the other way round
OffsetTo_Reversed(tLast, t) == t - tLast

\* tOffset = tLast - tiskz[iHit]: what brings the coincident hit onto the
\* last stored time
OffsetTo(tLast, t) == tLast - t

\* the dead-time test switched off
IsRepetitive_Off(hitTime, tPMT) == FALSE

\* the hit lies within the dead time TRBNWIDTH (us) of the time tPMT kept
\* for its PMT
IsRepetitive(hitTime, tPMT) == Abs(hitTime - tPMT) < TRBNWIDTH * 1000

AppendHit(s, h, tLast, qLast, pmtLast) ==
    LET coin     == ~s.found /\ h.qiskz = qLast /\ h.icabiz = pmtLast
        tOffset  == IF coin THEN OffsetTo(tLast, h.tiskz) ELSE s.off
        found    == s.found \/ coin
        hitPMTID == h.icabiz
        hitTime  == h.tiskz + tOffset
        inGate   == (h.ihtiflz \div InGateBit) % 2 = 1
        s1       == [s EXCEPT !.off = tOffset, !.found = found]
    IN  IF inGate /\ hitPMTID <= MAXPM
        THEN IF IsRepetitive(hitTime, s.P[hitPMTID])
             THEN [s1 EXCEPT !.tot = @ + 1, !.rem = @ + 1]
             ELSE [s1 EXCEPT !.tot = @ + 1,
                             !.T = Append(@, hitTime),
                             !.Q = Append(@, h.qiskz),
                             !.C = Append(@, hitPMTID),
                             !.P = [@ EXCEPT ![hitPMTID] = hitTime]]
        ELSE s1

RECURSIVE AppendLoop(_, _, _, _, _, _)
AppendLoop(s, in, iHit, tLast, qLast, pmtLast) ==
    IF iHit >= Len(in) THEN s
    ELSE AppendLoop(AppendHit(s, At(in, iHit), tLast, qLast, pmtLast),
                    in, iHit + 1, tLast, qLast, pmtLast)

\* the body of AppendRawHitInfo for the hits in of a trigger window
AppendToBuffers(in) ==
    /\ nTotalHits + Len(in) <= MaxHits
    /\ LET empty == vTISKZ = <<>>
           tLast   == IF empty THEN 0 ELSE vTISKZ[Len(vTISKZ)]
           qLast   == IF empty THEN 0 ELSE vQISKZ[Len(vQISKZ)]
           pmtLast == IF empty THEN 0 ELSE vCABIZ[Len(vCABIZ)]
           s0 == [T |-> vTISKZ, Q |-> vQISKZ, C |-> vCABIZ, P |-> vPMTHitTime,
                  tot |-> nTotalHits, rem |-> nRemovedHits,
                  off |-> 0, found |-> empty]
           s  == AppendLoop(s0, in, 0, tLast, qLast, pmtLast)
       IN  /\ vTISKZ' = s.T
           /\ vQISKZ' = s.Q
           /\ vCABIZ' = s.C
           /\ vPMTHitTime' = s.P
           /\ nTotalHits' = s.tot
           /\ nRemovedHits' = s.rem
           /\ nqiskz' = Len(s.T)
    /\ UNCHANGED <<conds, sortv, candv, storev, tmvav, auxv>>

AppendRawHitInfo(in) ==
    /\ pc \in {"idle", "read"}
    /\ AppendToBuffers(in)
    /\ pc' = IF pc = "idle" THEN "read" ELSE "read2"

(***************************************************************************)
(* ToF subtraction and sort.                                               *)
(***************************************************************************)
\* GetToF(vertex, pmtID): distance from the vertex to PMT pmtID over
\* C_WATER, for the one vertex of the model; pmtID is the 0-based PMT index
GetToF(pmtID) == 3 * pmtID

\* GetToFSubtracted(T, PMTID, vertex, doSort = false)
GetToFSubtracted(T, PMTID) ==
    [iHit \in 1..Len(T) |-> T[iHit] - GetToF(PMTID[iHit] - 1)]

\* PMTXYZ has MAXPM rows: pmtID is the index of one of them
ValidPMT(pmtID) == pmtID \in 0..(MAXPM - 1)

\* GetToF reads PMTXYZ[pmtID] with no test of pmtID.  For a pmtID outside
\* of PMTXYZ the read is out of bounds: it yields whatever lies next to the
\* table, or ends the process.
StrayToF == {-3, 0, 9}

GetToFOutcomes(pmtID) ==
    IF ValidPMT(pmtID) THEN {GetToF(pmtID)} ELSE StrayToF

\* a hit of PMTID makes GetToF read outside of PMTXYZ
ReadsOutOfPMTXYZ(PMTID) ==
    \E iHit \in 1..Len(PMTID) : ~ValidPMT(PMTID[iHit] - 1)

\* the vectors GetToFSubtracted can return for T and PMTID of one length
GetToFSubtractedOutcomes(T, PMTID) ==
    IF ~ReadsOutOfPMTXYZ(PMTID) THEN {GetToFSubtracted(T, PMTID)}
    ELSE LET vals(iHit) == { T[iHit] - tof : tof \in GetToFOutcomes(PMTID[iHit] - 1) }
         IN  { t \in [1..Len(T) -> UNION { vals(iHit) : iHit \in 1..Len(T) }] :
                 \A iHit \in 1..Len(T) : t[iHit] \in vals(iHit) }

\* TMath::Sort with down left at its default, true: decreasing order
TMath_Sort_Down(a) ==
    { idx \in [1..Len(a) -> 0..(Len(a) - 1)] :
        /\ \A i, j \in 1..Len(a) : i # j => idx[i] # idx[j]
        /\ \A i \in 1..(Len(a) - 1) : At(a, idx[i]) >= At(a, idx[i + 1]) }

\* TMath::Sort(n, a, index, down = false): index is filled with a
\* permutation of 0..n-1 that puts a in increasing order.  It is a
\* std::sort on the indices, which fixes no order among equal elements:
\* every ordering permutation is a possible result.
TMath_Sort(a) ==
    { idx \in [1..Len(a) -> 0..(Len(a) - 1)] :
        /\ \A i, j \in 1..Len(a) : i # j => idx[i] # idx[j]
        /\ \A i \in 1..(Len(a) - 1) : At(a, idx[i]) <= At(a, idx[i + 1]) }

\* the loop of SortToFSubtractedTQ over reverseIndex
ReverseIndexOf(idx) ==
    [o \in 1..Len(idx) |-> CHOOSE iHit \in 0..(Len(idx) - 1) : At(idx, iHit) = o - 1]

SortToFSubtractedTQ(unsorted) ==
    \E idx \in TMath_Sort(unsorted) :
        /\ sortedIndex' = idx
        /\ reverseIndex' = ReverseIndexOf(idx)
        /\ vSortedPMTID' = vSortedPMTID \o [iHit \in 1..nqiskz |-> At(vCABIZ, idx[iHit])]
        /\ vSortedT_ToF' = vSortedT_ToF \o [iHit \in 1..nqiskz |-> At(unsorted, idx[iHit])]
        /\ vSortedQ'     = vSortedQ \o [iHit \in 1..nqiskz |-> At(vQISKZ, idx[iHit])]

SetToFSubtractedTQ ==
    /\ pc \in {"read", "read2"}
    /\ \/ /\ \E unsorted \in (IF bUseResidual
                                THEN GetToFSubtractedOutcomes(vTISKZ, vCABIZ)
                                ELSE {vTISKZ}) :
                /\ vUnsortedT_ToF' = unsorted
                /\ SortToFSubtractedTQ(unsorted)
          /\ pc' = "sorted"
       \/ /\ bUseResidual
          /\ ReadsOutOfPMTXYZ(vCABIZ)
          /\ pc' = "crashed"
          /\ UNCHANGED sortv
    /\ UNCHANGED <<conds, rawv, candv, storev, tmvav, auxv>>

(***************************************************************************)
(* Window counts of NTagCalculator.                                        *)
(***************************************************************************)
\* the index at which a forward scan from startIndex leaves the window
\* [sortedT[startIndex], sortedT[startIndex] + w): the first hit at or
\* past its end, or the end of the vector
WindowEnd(sortedT, startIndex, w) ==
    LET past == { i \in startIndex..(Len(sortedT) - 1) :
                    At(sortedT, i) >= At(sortedT, startIndex) + w }
    IN  IF past = {} THEN Len(sortedT)
        ELSE CHOOSE i \in past : \A j \in past : i <= j

\* GetVectorFromStartIndex(sortedT, startIndex, tWidth): the hits of the
\* window, in order
GetVectorFromStartIndex(sortedT, startIndex, w) ==
    IF startIndex >= Len(sortedT) THEN <<>>
    ELSE [k \in 1..(WindowEnd(sortedT, startIndex, w) - startIndex) |->
            At(sortedT, startIndex + k - 1)]

\* GetNhitsFromStartIndex(sortedT, startIndex, tWidth): the number of hits
\* of the window
GetNhitsFromStartIndex(sortedT, startIndex, w) ==
    IF startIndex >= Len(sortedT) THEN 0
    ELSE Cardinality({ i \in startIndex..(WindowEnd(sortedT, startIndex, w) - 1) : TRUE })

\* GetNhitsFromCenterTime(T, centerTime, tWidth): the number of hits in
\* [centerTime - tWidth/2, centerTime + tWidth/2)
GetNhitsFromCenterTime(T, centerTime, w) ==
    Cardinality({ i \in 1..Len(T) :
                    /\ T[i] >= centerTime - (w \div 2)
                    /\ T[i] <  centerTime + (w \div 2) })

\* SliceVector(vec, startIndex, nElements, indexOrder)
SliceVector(vec, startIndex, nElements) ==
    [k \in 1..nElements |-> At(vec, startIndex + k - 1)]

SliceVectorOrdered(vec, startIndex, nElements, indexOrder) ==
    [k \in 1..nElements |-> At(vec, At(indexOrder, startIndex + k - 1))]

(***************************************************************************)
(* SavePeakFromHit: the candidate pushed for the sorted hit hitID.  The    *)
(* record also keeps the call itself: hitID, the N10Previous the search    *)
(* held when it called, and whether the call came after the loop.          *)
(***************************************************************************)
\* NTagCandidate::SetVariables: the variables of a candidate, every
\* candidate under the same names.  N10 is the number of hits of the slice,
\* ReconCT the time midway between its first and its last hit.
SetVariables(resTVec) ==
    [ iVarMap |-> [N10 |-> Len(resTVec)],
      fVarMap |-> [ReconCT |-> IF resTVec = <<>> THEN 0
                               ELSE (resTVec[1] + resTVec[Len(resTVec)]) \div 2] ]

SavePeakFromHit(cands, hitID, n10Tracked, afterLoop) ==
    LET resTVec == GetVectorFromStartIndex(vSortedT_ToF, hitID, tWidth)
        n10     == Len(resTVec)
    IN  Append(cands,
               [ candidateID |-> Len(cands),
                 hitID       |-> hitID,
                 resTVec     |-> resTVec,
                 rawTVec     |-> SliceVectorOrdered(vTISKZ, hitID, n10, reverseIndex),
                 pmtQVec     |-> SliceVector(vSortedQ, hitID, n10),
                 cabIVec     |-> SliceVector(vSortedPMTID, hitID, n10),
                 iVarMap     |-> SetVariables(resTVec).iVarMap,
                 fVarMap     |-> SetVariables(resTVec).fVarMap,
                 n10Tracked  |-> n10Tracked,
                 afterLoop   |-> afterLoop ])

(***************************************************************************)
(* SearchCaptureCandidates.  c holds the tag conditions, s the locals and  *)
(* the members the loop writes.                                            *)
(***************************************************************************)
Conditions == [N10TH |-> N10TH, N10MX |-> N10MX, N200MX |-> N200MX,
               T0TH |-> T0TH, TMINPEAKSEP |-> TMINPEAKSEP]

\* the T0 test with the hit time left in ns
BelowT0_Unscaled(c, t) == t < c.T0TH

\* the hit lies before the T0 threshold and is skipped
BelowT0(c, t) == t < c.T0TH * 1000

\* N10TH <= N10_iHit <= N10MX
InN10Range(c, N10_iHit) ==
    ~((N10_iHit < c.N10TH) \/ (N10_iHit >= c.N10MX + 1))

\* the test on the previous peak with the N200 comparison turned around
PreviousPeakPasses_Inverted(c, s) ==
    s.N200Previous >= c.N200MX /\ s.t0Previous > c.T0TH * 1000

\* the test that lets the loop save the previous peak
PreviousPeakPasses(c, s) ==
    s.N200Previous < c.N200MX /\ s.t0Previous > c.T0TH * 1000

\* the anchor test that lets a hit of equal N10 replace the anchor
NotGreaterThanPrevious_Strict(N10New, N10Previous) == N10New < N10Previous

\* N10 is not greater than previous: the hit does not replace the anchor
NotGreaterThanPrevious(N10New, N10Previous) == N10New <= N10Previous

\* the test on the largest N200 with a count equal to it let through
ExceedsMaxN200_OrEqual(c, t0New, N200New, mx) ==
    t0New > c.T0TH * 1000 /\ N200New >= mx

\* the hit lies past T0TH and its N200 is larger than the largest so far
ExceedsMaxN200(c, t0New, N200New, mx) ==
    t0New > c.T0TH * 1000 /\ N200New > mx

SearchStep(c, s, iHit) ==
    LET t0New    == At(vSortedT_ToF, iHit)
        s1       == IF s.firstHitTime_ToF = 0
                    THEN [s EXCEPT !.firstHitTime_ToF = t0New] ELSE s
        N10_iHit == GetNhitsFromStartIndex(vSortedT_ToF, iHit, tWidth)
        N200New  == GetNhitsFromCenterTime(vSortedT_ToF, t0New + tCenterShift, tWidth200)
        s2       == IF ExceedsMaxN200(c, t0New, N200New, s1.maxN200)
                    THEN [s1 EXCEPT !.maxN200 = N200New, !.maxN200Time = t0New]
                    ELSE s1
        s3       == IF t0New - s2.t0Previous > c.TMINPEAKSEP
                    THEN [s2 EXCEPT
                            !.cands = IF PreviousPeakPasses(c, s2)
                                      THEN SavePeakFromHit(@, s2.iHitPrevious,
                                                           s2.N10Previous, FALSE)
                                      ELSE @,
                            !.N10Previous = 0]
                    ELSE s2
    IN  IF BelowT0(c, t0New) THEN s
        ELSE IF ~InN10Range(c, N10_iHit) THEN s1
        ELSE IF NotGreaterThanPrevious(N10_iHit, s3.N10Previous) THEN s3
        ELSE [s3 EXCEPT !.iHitPrevious = iHit, !.t0Previous = t0New,
                        !.N10Previous = N10_iHit, !.N200Previous = N200New]

\* the loop over the sorted hits.  iHitPrevious never runs ahead of iHit:
\* the test on it always holds and has each step evaluated before the next
RECURSIVE SearchLoop(_, _, _)
SearchLoop(c, s, iHit) ==
    IF iHit >= nqiskz THEN s
    ELSE LET next == SearchStep(c, s, iHit)
         IN  IF next.iHitPrevious <= iHit THEN SearchLoop(c, next, iHit + 1)
             ELSE next

\* the last anchor saved after the loop with no test of N10Previous
SaveLastPeak_Untested(c, s) ==
    [s EXCEPT !.cands = SavePeakFromHit(@, s.iHitPrevious, s.N10Previous, TRUE)]

\* the peak saved after the loop
SaveLastPeak(c, s) ==
    IF s.N10Previous >= c.N10TH
    THEN [s EXCEPT !.cands = SavePeakFromHit(@, s.iHitPrevious, s.N10Previous, TRUE)]
    ELSE s

\* the locals at the start of the search, with the members the loop writes
SearchLocals(cands, mx, mxTime, fht) ==
    [ iHitPrevious |-> 0, N10Previous |-> 0, N200Previous |-> 0,
      t0Previous |-> t0Sentinel,
      cands |-> cands, maxN200 |-> mx, maxN200Time |-> mxTime,
      firstHitTime_ToF |-> fht ]

\* the whole search under the tag conditions c
SearchResult(c, s0) == SaveLastPeak(c, SearchLoop(c, s0, 0))

SearchCaptureCandidates ==
    /\ pc = "sorted"
    /\ LET s == SearchResult(Conditions,
                             SearchLocals(vCandidates, maxN200, maxN200Time,
                                          firstHitTime_ToF))
       IN  /\ vCandidates' = s.cands
           /\ nCandidates' = nCandidates + (Len(s.cands) - Len(vCandidates))
           /\ maxN200' = s.maxN200
           /\ maxN200Time' = s.maxN200Time
           /\ firstHitTime_ToF' = s.firstHitTime_ToF
    /\ pc' = "searched"
    /\ UNCHANGED <<conds, rawv, sortv, storev, tmvav, auxv>>

(***************************************************************************)
(* NTagTMVAVariables: the names of Clear() and the state it leaves.        *)
(***************************************************************************)
IntNames == {"N10", "N200", "N50"}

FloatNames ==
    IntNames \cup
    { "dt", "sumQ", "spread", "trmsold", "beta1", "beta2", "beta3", "beta4",
      "beta5", "prompt_nfit", "tbsenergy", "tbswall", "tbsgood", "tbsdirks",
      "tbspatlik", "tbsovaq", "prompt_bonsai", "nwall", "trms40", "bonsai_nfit" }

NTagTMVAVariables_Clear ==
    /\ iVariableMap' = [n \in IntNames |-> 0]
    /\ fVariableMap' = [n \in FloatNames |-> 0]
    /\ iEventVectorMap' = [n \in IntNames |-> <<>>]
    /\ fEventVectorMap' = [n \in FloatNames |-> <<>>]

(***************************************************************************)
(* The event arrays of candidate variables.  A map entry is a pointer to   *)
(* a vector: [null, v], null for the entry operator[] inserts for a name   *)
(* the map does not hold.                                                  *)
(***************************************************************************)
NewVector == [null |-> FALSE, v |-> <<>>]
NullPointer == [null |-> TRUE, v |-> <<>>]

\* InitializeCandidateVariableVectors: one new vector per name of varMap
InitializeVectors(varMap) == [k \in DOMAIN varMap |-> NewVector]

\* the inner loops of ExtractCandidateVariables for one candidate:
\* map[name]->push_back(value) for every name of varMap.  A push_back
\* through a null pointer leaves the entry null.
PushBackAll_Twice(map, varMap) ==
    [k \in DOMAIN map \cup DOMAIN varMap |->
        IF k \notin DOMAIN varMap THEN map[k]
        ELSE IF k \notin DOMAIN map THEN NullPointer
        ELSE IF map[k].null THEN map[k]
        ELSE [map[k] EXCEPT !.v = Append(Append(@, varMap[k]), varMap[k])]]

PushBackAll(map, varMap) ==
    [k \in DOMAIN map \cup DOMAIN varMap |->
        IF k \notin DOMAIN varMap THEN map[k]
        ELSE IF k \notin DOMAIN map THEN NullPointer
        ELSE IF map[k].null THEN map[k]
        ELSE [map[k] EXCEPT !.v = Append(@, varMap[k])]]

\* a push_back of varMap goes through a null pointer
ThroughNull(map, varMap) ==
    \E k \in DOMAIN varMap : k \notin DOMAIN map \/ map[k].null

\* ExtractCandidateVariables from candidate number iCand on; st is
\* [i, f, ub]: the two maps and whether a null pointer was used
RECURSIVE ExtractCandidateVariables(_, _, _)
ExtractCandidateVariables(cands, iCand, st) ==
    IF iCand > Len(cands) THEN st
    ELSE ExtractCandidateVariables(cands, iCand + 1,
            [ i  |-> PushBackAll(st.i, cands[iCand].iVarMap),
              f  |-> PushBackAll(st.f, cands[iCand].fVarMap),
              ub |-> \/ st.ub
                     \/ ThroughNull(st.i, cands[iCand].iVarMap)
                     \/ ThroughNull(st.f, cands[iCand].fVarMap) ])

\* SetCandidateVariables.  The use of a null pointer is undefined: the
\* process dies of it, or goes on with the value not stored.
SetCandidateVariables ==
    /\ pc = "searched"
    /\ IF vCandidates = <<>>
       THEN /\ pc' = "extracted"
            /\ UNCHANGED storev
       ELSE LET init == ~candidateVariablesInitialized
                st0  == [ i |-> IF init THEN InitializeVectors(vCandidates[1].iVarMap)
                                ELSE iCandidateVarMap,
                          f |-> IF init THEN InitializeVectors(vCandidates[1].fVarMap)
                                ELSE fCandidateVarMap,
                          ub |-> FALSE ]
                st   == ExtractCandidateVariables(vCandidates, 1, st0)
            IN  /\ candidateVariablesInitialized' = TRUE
                /\ iCandidateVarMap' = st.i
                /\ fCandidateVarMap' = st.f
                /\ pc' \in IF st.ub THEN {"extracted", "crashed"} ELSE {"extracted"}
    /\ UNCHANGED <<conds, rawv, sortv, candv, tmvav, auxv>>

(***************************************************************************)
(* Clear: the members of this model it resets.  pair.second->clear() on a  *)
(* null entry is undefined as above.                                       *)
(***************************************************************************)
\* the map after the loop of clear() over its entries
ClearedVarMap_Erased(map) == [k \in {} |-> NewVector]

ClearedVarMap_Kept(map) == map

ClearedVarMap(map) == [k \in DOMAIN map |-> [map[k] EXCEPT !.v = <<>>]]

HoldsNull(map) == \E k \in DOMAIN map : map[k].null

\* the body of Clear
ClearMembers ==
    /\ pc = "extracted"
    /\ nqiskz' = 0
    /\ nCandidates' = 0
    /\ maxN200' = 0
    /\ maxN200Time' = tCleared
    /\ firstHitTime_ToF' = tCleared
    /\ vTISKZ' = <<>> /\ vQISKZ' = <<>> /\ vCABIZ' = <<>>
    /\ vPMTHitTime' = [p \in 0..MAXPM |-> 0]
    /\ vSortedPMTID' = <<>> /\ vSortedT_ToF' = <<>>
    /\ vUnsortedT_ToF' = <<>> /\ vSortedQ' = <<>>
    /\ NTagTMVAVariables_Clear
    /\ nTotalHits' = 0 /\ nRemovedHits' = 0
    /\ vCandidates' = <<>>
    /\ sortedIndex' = <<>>
    /\ iCandidateVarMap' = ClearedVarMap(iCandidateVarMap)
    /\ fCandidateVarMap' = ClearedVarMap(fCandidateVarMap)
    /\ pc' \in IF HoldsNull(iCandidateVarMap) \/ HoldsNull(fCandidateVarMap)
               THEN {"idle", "crashed"} ELSE {"idle"}
    /\ UNCHANGED <<conds, reverseIndex, candidateVariablesInitialized, treeBranches>>

Clear ==
    /\ ClearMembers
    /\ UNCHANGED auxv

(***************************************************************************)
(* The reader: construction followed by Clear, then event after event.     *)
(***************************************************************************)
\* the constructor: candidateVariablesInitialized = false, empty maps
NoVariables ==
    /\ candidateVariablesInitialized = FALSE
    /\ iCandidateVarMap = [k \in {} |-> NewVector]
    /\ fCandidateVarMap = [k \in {} |-> NewVector]

\* NTagTMVAVariables(): Clear(), no tree yet
TMVACleared ==
    /\ iVariableMap = [n \in IntNames |-> 0]
    /\ fVariableMap = [n \in FloatNames |-> 0]
    /\ iEventVectorMap = [n \in IntNames |-> <<>>]
    /\ fEventVectorMap = [n \in FloatNames |-> <<>>]
    /\ treeBranches = {}

\* no direct call of GetToFSubtracted made, no first run kept
NoCall == [status |-> "none", T |-> <<>>, PMTID |-> <<>>, t_ToF |-> <<>>]
NoRun == [done |-> FALSE]
NoHistory == tofCall = NoCall /\ firstRun = NoRun

Init ==
    /\ pc = "idle"
    /\ N10TH = NTagDefault_N10TH
    /\ N10MX = NTagDefault_N10MX
    /\ N200MX = NTagDefault_N200MX
    /\ T0TH = NTagDefault_T0TH
    /\ TMINPEAKSEP = NTagDefault_TMINPEAKSEP
    /\ TRBNWIDTH \in TRBNWIDTHVals
    /\ bUseResidual = TRUE
    /\ vTISKZ = <<>> /\ vQISKZ = <<>> /\ vCABIZ = <<>>
    /\ vPMTHitTime = [p \in 0..MAXPM |-> 0]
    /\ nqiskz = 0 /\ nTotalHits = 0 /\ nRemovedHits = 0
    /\ vUnsortedT_ToF = <<>> /\ vSortedT_ToF = <<>>
    /\ vSortedQ = <<>> /\ vSortedPMTID = <<>>
    /\ sortedIndex = <<>> /\ reverseIndex = <<>>
    /\ vCandidates = <<>> /\ nCandidates = 0
    /\ maxN200 = 0 /\ maxN200Time = tCleared /\ firstHitTime_ToF = tCleared
    /\ NoVariables /\ TMVACleared /\ NoHistory

Next ==
    \/ pc = "idle" /\ \E low \in {1, NTagDefault_N10TH} :
                          SetN10Limits(low, NTagDefault_N10MX)
    \/ pc = "idle" /\ \E low \in {-1, NTagDefault_T0TH} : SetT0Limits(low)
    \/ \E in \in SeqsUpTo(HitPool, MaxHits) : AppendRawHitInfo(in)
    \/ SetToFSubtractedTQ
    \/ SearchCaptureCandidates
    \/ SetCandidateVariables
    \/ Clear

Spec == Init /\ [][Next]_vars

(***************************************************************************)
(* The search on its own: an event already sorted, under every             *)
(* combination of tag conditions.  The hits all sit on cable 1, whose ToF  *)
(* is 0, and were read in time order.                                      *)
(***************************************************************************)
SearchTimes == {0, 45, 90, 97}

IsSortedT(T) == \A i \in 1..(Len(T) - 1) : T[i] <= T[i + 1]

\* 20 hits in two bursts of 10, 1 ns apart, the bursts 100 ns apart
TwoBursts(t0) == [i \in 1..20 |-> IF i <= 10 THEN t0 + (i - 1) ELSE t0 + 100 + (i - 11)]

\* 15 hits within 10 ns, spread out, and the same again 2 ns after the last
BurstSpread == <<0, 0, 1, 1, 2, 2, 3, 3, 4, 4, 5, 6, 7, 8, 9>>
DoubleBurstSpread(t0) ==
    [i \in 1..30 |-> IF i <= 15 THEN t0 + BurstSpread[i] ELSE t0 + 11 + BurstSpread[i - 15]]

\* 15 hits within 10 ns, 14 of them at its end, followed 2 ns later by 15
\* hits within 10 ns, 14 of them at its start
DoubleBurstPacked(t0) ==
    [i \in 1..30 |-> IF i = 1 THEN t0
                     ELSE IF i <= 15 THEN t0 + 9
                     ELSE IF i <= 29 THEN t0 + 11
                     ELSE t0 + 20]

\* a start time past the default T0TH (5, held against time * 1.e-3)
tLate == 6000

\* a pair of hits, a second pair starting inside the window of the first,
\* and a single hit more than 50 ns after the first pair and less than
\* 50 ns after the second
PairsThenSingle == <<0, 5, 12, 52>>

ScenarioSeries ==
    { TwoBursts(0), TwoBursts(tLate),
      DoubleBurstSpread(tLate), DoubleBurstPacked(tLate), PairsThenSingle }

SortedSeries ==
    { T \in SeqsUpTo(SearchTimes, MaxHits) : IsSortedT(T) } \cup ScenarioSeries

InitSearch ==
    /\ pc = "sorted"
    /\ N10TH \in N10THVals
    /\ N10MX \in N10MXVals
    /\ T0TH \in T0THVals
    /\ N200MX = NTagDefault_N200MX
    /\ TMINPEAKSEP = NTagDefault_TMINPEAKSEP
    /\ TRBNWIDTH = 0
    /\ bUseResidual = TRUE
    /\ \E T \in SortedSeries :
        /\ vTISKZ = T
        /\ vQISKZ = [i \in 1..Len(T) |-> 1]
        /\ vCABIZ = [i \in 1..Len(T) |-> 1]
        /\ vPMTHitTime = [p \in 0..MAXPM |->
                            IF p = 1 /\ T # <<>> THEN T[Len(T)] ELSE 0]
        /\ nqiskz = Len(T) /\ nTotalHits = Len(T) /\ nRemovedHits = 0
        /\ vUnsortedT_ToF = T /\ vSortedT_ToF = T
        /\ vSortedQ = [i \in 1..Len(T) |-> 1]
        /\ vSortedPMTID = [i \in 1..Len(T) |-> 1]
        /\ sortedIndex = [i \in 1..Len(T) |-> i - 1]
        /\ reverseIndex = [i \in 1..Len(T) |-> i - 1]
    /\ vCandidates = <<>> /\ nCandidates = 0
    /\ maxN200 = 0 /\ maxN200Time = tCleared /\ firstHitTime_ToF = tCleared
    /\ NoVariables /\ TMVACleared /\ NoHistory

NextSearch ==
    \/ pc = "sorted" /\ \E max \in N200MXVals : SetN200Max(max)
    \/ pc = "sorted" /\ \E t \in TMINPEAKSEPVals : SetTPeakSeparation(t)
    \/ SearchCaptureCandidates

SpecSearch == InitSearch /\ [][NextSearch]_vars

(***************************************************************************)
(* The event arrays on their own: an event whose search is over, with      *)
(* candidates of any of the variable sets below, after no earlier event    *)
(* or after one that fixed the names.                                      *)
(***************************************************************************)
\* largest number of candidates of the event
MaxCands == 2

PlainVars(n) ==
    [ iVarMap |-> [N10 |-> n], fVarMap |-> [ReconCT |-> 10 * n] ]

LabelledVars(n) ==
    [ iVarMap |-> [N10 |-> n, CaptureType |-> 0],
      fVarMap |-> [ReconCT |-> 10 * n, TMVAOutput |-> 1] ]

VarChoices == { PlainVars(n) : n \in 1..2 } \cup { LabelledVars(n) : n \in 1..2 }

InitStore ==
    /\ pc = "searched"
    /\ N10TH = NTagDefault_N10TH
    /\ N10MX = NTagDefault_N10MX
    /\ N200MX = NTagDefault_N200MX
    /\ T0TH = NTagDefault_T0TH
    /\ TMINPEAKSEP = NTagDefault_TMINPEAKSEP
    /\ TRBNWIDTH = 0
    /\ bUseResidual = TRUE
    /\ vTISKZ = <<>> /\ vQISKZ = <<>> /\ vCABIZ = <<>>
    /\ vPMTHitTime = [p \in 0..MAXPM |-> 0]
    /\ nqiskz = 0 /\ nTotalHits = 0 /\ nRemovedHits = 0
    /\ vUnsortedT_ToF = <<>> /\ vSortedT_ToF = <<>>
    /\ vSortedQ = <<>> /\ vSortedPMTID = <<>>
    /\ sortedIndex = <<>> /\ reverseIndex = <<>>
    /\ \E vs \in SeqsUpTo(VarChoices, MaxCands) :
        /\ vCandidates = [i \in 1..Len(vs) |->
                            [ candidateID |-> i - 1,
                              iVarMap |-> vs[i].iVarMap, fVarMap |-> vs[i].fVarMap ]]
        /\ nCandidates = Len(vs)
    /\ maxN200 = 0 /\ maxN200Time = tCleared /\ firstHitTime_ToF = tCleared
    /\ \/ NoVariables
       \/ \E first \in {PlainVars(1), LabelledVars(1)} :
            /\ candidateVariablesInitialized = TRUE
            /\ iCandidateVarMap = InitializeVectors(first.iVarMap)
            /\ fCandidateVarMap = InitializeVectors(first.fVarMap)
    /\ TMVACleared /\ NoHistory

NextStore ==
    \/ SetCandidateVariables
    \/ Clear

SpecStore == InitStore /\ [][NextStore]_vars

\* the names fixed for the event arrays: those that own a vector
FixedNames(map) == { k \in DOMAIN map : ~map[k].null }

\* C11: when the candidates are appended to the event arrays, a candidate
\* whose names are not exactly the fixed names is not appended, a contract
\* violation is raised instead: no event comes out of the appending with
\* such a candidate.
C11_MismatchIsRaised ==
    pc = "extracted" =>
        \A i \in 1..Len(vCandidates) :
            /\ DOMAIN vCandidates[i].iVarMap = FixedNames(iCandidateVarMap)
            /\ DOMAIN vCandidates[i].fVarMap = FixedNames(fCandidateVarMap)

(***************************************************************************)
(* NTagTMVAVariables on its own: event vectors as a tree or a filler left  *)
(* them, every int vector with one entry per candidate, the float vectors  *)
(* of the int names empty or filled as well.                               *)
(***************************************************************************)
\* largest number of entries of an event vector
MaxEntries == 2

IntVals == {1, 2}
FloatVals == {5, 6}

\* tree->Branch(pair.first, &(pair.second)) of the two loops
MakeBranchesToTree ==
    /\ treeBranches' =
          { [name |-> k, of |-> "iEventVectorMap"] : k \in DOMAIN iEventVectorMap }
          \cup
          { [name |-> k, of |-> "fEventVectorMap"] :
                k \in { n \in DOMAIN fEventVectorMap : n \notin DOMAIN iVariableMap } }
    /\ UNCHANGED <<pc, conds, rawv, sortv, candv, storev, auxv,
                   iVariableMap, fVariableMap, iEventVectorMap, fEventVectorMap>>

\* fVariableMap[name] of the second loop, with the int variables iVars of
\* the first loop, but nothing loaded for a name of the int variables
FloatVariableFor_NotLoaded(iVars, k, iCandidate) ==
    IF k \in DOMAIN iVars THEN 0
    ELSE At(fEventVectorMap[k], iCandidate)

\* fVariableMap[name] of the second loop, with the int variables iVars of
\* the first loop
FloatVariableFor(iVars, k, iCandidate) ==
    IF k \in DOMAIN iVars THEN iVars[k]
    ELSE At(fEventVectorMap[k], iCandidate)

SetVariablesForCaptureCandidate(iCandidate) ==
    /\ \A k \in DOMAIN iEventVectorMap : iCandidate < Len(iEventVectorMap[k])
    /\ \A k \in DOMAIN fEventVectorMap :
          k \notin DOMAIN iVariableMap => iCandidate < Len(fEventVectorMap[k])
    /\ LET iVars == [k \in DOMAIN iEventVectorMap |-> At(iEventVectorMap[k], iCandidate)]
       IN  /\ iVariableMap' = iVars
           /\ fVariableMap' = [k \in DOMAIN fEventVectorMap |->
                                  FloatVariableFor(iVars, k, iCandidate)]
    /\ UNCHANGED <<pc, conds, rawv, sortv, candv, storev, auxv,
                   iEventVectorMap, fEventVectorMap, treeBranches>>

InitTMVA ==
    /\ pc = "idle"
    /\ N10TH = NTagDefault_N10TH
    /\ N10MX = NTagDefault_N10MX
    /\ N200MX = NTagDefault_N200MX
    /\ T0TH = NTagDefault_T0TH
    /\ TMINPEAKSEP = NTagDefault_TMINPEAKSEP
    /\ TRBNWIDTH = 0
    /\ bUseResidual = TRUE
    /\ vTISKZ = <<>> /\ vQISKZ = <<>> /\ vCABIZ = <<>>
    /\ vPMTHitTime = [p \in 0..MAXPM |-> 0]
    /\ nqiskz = 0 /\ nTotalHits = 0 /\ nRemovedHits = 0
    /\ vUnsortedT_ToF = <<>> /\ vSortedT_ToF = <<>>
    /\ vSortedQ = <<>> /\ vSortedPMTID = <<>>
    /\ sortedIndex = <<>> /\ reverseIndex = <<>>
    /\ vCandidates = <<>> /\ nCandidates = 0
    /\ maxN200 = 0 /\ maxN200Time = tCleared /\ firstHitTime_ToF = tCleared
    /\ NoVariables /\ NoHistory
    /\ iVariableMap = [n \in IntNames |-> 0]
    /\ fVariableMap = [n \in FloatNames |-> 0]
    /\ treeBranches = {}
    /\ \E n \in 1..MaxEntries :
        /\ iEventVectorMap \in [IntNames -> [1..n -> IntVals]]
        /\ \E fi \in {<<>>} \cup [1..n -> FloatVals], fo \in [1..n -> FloatVals] :
              fEventVectorMap = [k \in FloatNames |-> IF k \in IntNames THEN fi ELSE fo]

NextTMVA ==
    \/ MakeBranchesToTree
    \/ \E iCandidate \in 0..(MaxEntries - 1) : SetVariablesForCaptureCandidate(iCandidate)

SpecTMVA == InitTMVA /\ [][NextTMVA]_vars

\* the names of both the int and the float variables
SharedNames == DOMAIN iVariableMap \cap DOMAIN fVariableMap

\* the tree has its branches, the one of name k on the vector of map `of`
BranchedOn(k, of) ==
    \A b \in treeBranches : b.name = k => b.of = of

\* C14 as claimed: for a name of both the int and the float variables the
\* float side wins: the branch made for output is on the float event vector
\* and the value loaded for a candidate is that of the float event vector.
C14_FloatWins ==
    [][ /\ \A iCandidate \in 0..(MaxEntries - 1) :
            SetVariablesForCaptureCandidate(iCandidate) =>
                \A k \in SharedNames :
                    iCandidate < Len(fEventVectorMap[k]) =>
                        fVariableMap'[k] = At(fEventVectorMap[k], iCandidate)
        /\ treeBranches' # {} =>
            \A k \in SharedNames : BranchedOn(k, "fEventVectorMap")' ]_vars

\* C14 as amended: for a name of both the int and the float variables the
\* int side wins: the only branch made for output is on the int event vector
\* and the float variable loaded for a candidate is the value of the int
\* event vector; for the other float names it is the value of the float
\* event vector.
C14_IntWins ==
    [][ /\ \A iCandidate \in 0..(MaxEntries - 1) :
            SetVariablesForCaptureCandidate(iCandidate) =>
                /\ \A k \in SharedNames :
                    /\ iVariableMap'[k] = At(iEventVectorMap[k], iCandidate)
                    /\ fVariableMap'[k] = At(iEventVectorMap[k], iCandidate)
                /\ \A k \in DOMAIN fVariableMap \ SharedNames :
                    fVariableMap'[k] = At(fEventVectorMap[k], iCandidate)
        /\ treeBranches' # {} =>
            /\ \A k \in SharedNames :
                /\ \E b \in treeBranches' : b.name = k
                /\ BranchedOn(k, "iEventVectorMap")'
            /\ \A k \in DOMAIN fVariableMap \ SharedNames :
                /\ \E b \in treeBranches' : b.name = k
                /\ BranchedOn(k, "fEventVectorMap")' ]_vars

\* branches made and a candidate loaded whose float event vector of N10 is
\* filled: the float variable N10 holds a value of the int event vector
C14_Witness ==
    /\ treeBranches # {}
    /\ fEventVectorMap["N10"] # <<>>
    /\ fVariableMap["N10"] \in IntVals
    /\ fVariableMap["dt"] \in FloatVals

(***************************************************************************)
(* Hits of sensors without a row in PMTXYZ, and GetToFSubtracted called    *)
(* with vectors of any two lengths.                                        *)
(***************************************************************************)
\* in-gate hits of cable 0 (below the first PMT), of the PMTs, and of
\* cable MAXPM + 1 (above the last PMT)
ToFHitPool ==
    { Hit(0, 1, 0, InGateBit), Hit(3, 2, 1, InGateBit), Hit(45, 3, MAXPM, InGateBit),
      Hit(55, 1, MAXPM + 1, InGateBit) }

\* longest vector GetToFSubtracted is called with
MaxCall == 2

CallT == SeqsUpTo({0, 45}, MaxCall)
CallPMTID == SeqsUpTo({1, MAXPM}, MaxCall)

\* assert(nHits == PMTID.size()) of a build without NDEBUG: abort()
AssertFails(T, PMTID) ==
    /\ Len(T) # Len(PMTID)
    /\ tofCall' = [status |-> "aborted", T |-> T, PMTID |-> PMTID, t_ToF |-> <<>>]
    /\ pc' = "crashed"

\* the loop of GetToFSubtracted over nHits = T.size() hits, with no assert
\* (NDEBUG) or with the assert passed.  PMTID[iHit] past the end of PMTID
\* is a read out of bounds: any pmtID, or the end of the process.
LoopOverT(T, PMTID) ==
    IF Len(PMTID) >= Len(T)
    THEN /\ \E t \in GetToFSubtractedOutcomes(T, SubSeq(PMTID, 1, Len(T))) :
              tofCall' = [status |-> "returned", T |-> T, PMTID |-> PMTID, t_ToF |-> t]
         /\ pc' = pc
    ELSE \/ /\ \E rest \in [(Len(PMTID) + 1)..Len(T) -> 0..(MAXPM + 1)] :
                 \E t \in GetToFSubtractedOutcomes(T,
                             [iHit \in 1..Len(T) |-> IF iHit <= Len(PMTID)
                                                     THEN PMTID[iHit] ELSE rest[iHit]]) :
                     tofCall' = [status |-> "returned", T |-> T, PMTID |-> PMTID,
                                 t_ToF |-> t]
            /\ pc' = pc
         \/ /\ tofCall' = [status |-> "crashed", T |-> T, PMTID |-> PMTID, t_ToF |-> <<>>]
            /\ pc' = "crashed"

\* a call of GetToFSubtracted(T, PMTID, vertex, false) from outside.  The
\* function reads and writes no member of the event: the calls taken are
\* those on the cleared event.
CallGetToFSubtracted(T, PMTID) ==
    /\ pc = "idle"
    /\ \/ AssertFails(T, PMTID)
       \/ /\ Len(T) = Len(PMTID)
          /\ LoopOverT(T, PMTID)
       \/ /\ Len(T) # Len(PMTID)
          /\ LoopOverT(T, PMTID)
    /\ UNCHANGED <<conds, rawv, sortv, candv, storev, tmvav, firstRun>>

InitToF ==
    /\ pc = "idle"
    /\ N10TH = NTagDefault_N10TH
    /\ N10MX = NTagDefault_N10MX
    /\ N200MX = NTagDefault_N200MX
    /\ T0TH = NTagDefault_T0TH
    /\ TMINPEAKSEP = NTagDefault_TMINPEAKSEP
    /\ TRBNWIDTH = 0
    /\ bUseResidual = TRUE
    /\ vTISKZ = <<>> /\ vQISKZ = <<>> /\ vCABIZ = <<>>
    /\ vPMTHitTime = [p \in 0..MAXPM |-> 0]
    /\ nqiskz = 0 /\ nTotalHits = 0 /\ nRemovedHits = 0
    /\ vUnsortedT_ToF = <<>> /\ vSortedT_ToF = <<>>
    /\ vSortedQ = <<>> /\ vSortedPMTID = <<>>
    /\ sortedIndex = <<>> /\ reverseIndex = <<>>
    /\ vCandidates = <<>> /\ nCandidates = 0
    /\ maxN200 = 0 /\ maxN200Time = tCleared /\ firstHitTime_ToF = tCleared
    /\ NoVariables /\ TMVACleared /\ NoHistory

NextToF ==
    \/ \E in \in SeqsUpTo(ToFHitPool, MaxHits) : AppendRawHitInfo(in)
    \/ SetToFSubtractedTQ
    \/ \E T \in CallT, PMTID \in CallPMTID : CallGetToFSubtracted(T, PMTID)

SpecToF == InitToF /\ [][NextToF]_vars

(***************************************************************************)
(* One trigger window read twice: the event is processed, cleared, and     *)
(* processed again from the same hits under the same tag conditions.       *)
(* firstRun keeps the hits of the window and, from the first Clear on,     *)
(* what the first run had produced.                                        *)
(***************************************************************************)
\* what a run has produced when Clear is called
RunOutput ==
    [ done |-> TRUE, in |-> firstRun.in,
      vUnsortedT_ToF |-> vUnsortedT_ToF,
      sortedIndex |-> sortedIndex,
      vSortedT_ToF |-> vSortedT_ToF,
      nCandidates |-> nCandidates,
      vCandidates |-> vCandidates,
      iCandidateVarMap |-> iCandidateVarMap,
      fCandidateVarMap |-> fCandidateVarMap ]

ReadWindow ==
    /\ pc = "idle"
    /\ AppendRawHitInfo(firstRun.in)

\* TMath::Sort is a function of the array it is given: on the array of the
\* first run it fills the index of the first run
SortWindow ==
    /\ SetToFSubtractedTQ
    /\ (firstRun.done /\ vUnsortedT_ToF' = firstRun.vUnsortedT_ToF)
           => sortedIndex' = firstRun.sortedIndex

ClearWindow ==
    /\ ClearMembers
    /\ firstRun' = IF firstRun.done THEN firstRun ELSE RunOutput
    /\ UNCHANGED tofCall

InitTwice ==
    /\ pc = "idle"
    /\ N10TH \in {1, NTagDefault_N10TH}
    /\ N10MX = NTagDefault_N10MX
    /\ N200MX = NTagDefault_N200MX
    /\ T0TH \in {-1, NTagDefault_T0TH}
    /\ TMINPEAKSEP = NTagDefault_TMINPEAKSEP
    /\ TRBNWIDTH \in TRBNWIDTHVals
    /\ bUseResidual = TRUE
    /\ vTISKZ = <<>> /\ vQISKZ = <<>> /\ vCABIZ = <<>>
    /\ vPMTHitTime = [p \in 0..MAXPM |-> 0]
    /\ nqiskz = 0 /\ nTotalHits = 0 /\ nRemovedHits = 0
    /\ vUnsortedT_ToF = <<>> /\ vSortedT_ToF = <<>>
    /\ vSortedQ = <<>> /\ vSortedPMTID = <<>>
    /\ sortedIndex = <<>> /\ reverseIndex = <<>>
    /\ vCandidates = <<>> /\ nCandidates = 0
    /\ maxN200 = 0 /\ maxN200Time = tCleared /\ firstHitTime_ToF = tCleared
    /\ NoVariables /\ TMVACleared
    /\ tofCall = NoCall
    /\ \E in \in SeqsUpTo(HitPool, MaxHits) : firstRun = [done |-> FALSE, in |-> in]

NextTwice ==
    \/ ReadWindow
    \/ SortWindow
    \/ SearchCaptureCandidates
    \/ SetCandidateVariables
    \/ ClearWindow

SpecTwice == InitTwice /\ [][NextTwice]_vars

(***************************************************************************)
(* An event whose hits arrive in several trigger windows, sorted after     *)
(* each of them: AppendRawHitInfo, SetToFSubtractedTQ, and again, with no  *)
(* Clear in between.                                                       *)
(***************************************************************************)
\* AppendRawHitInfo for a further, non-empty window of an event already
\* sorted.  The sorted vectors grow with every sort: the runs taken are
\* those with no further window once they are longer than the hit buffer.
AppendRawHitInfoAgain(in) ==
    /\ pc = "sorted"
    /\ in # <<>>
    /\ Len(vSortedT_ToF) <= nqiskz
    /\ AppendToBuffers(in)
    /\ pc' = "read2"

NextResort ==
    \/ \E in \in SeqsUpTo(HitPool, MaxHits) : AppendRawHitInfo(in)
    \/ SetToFSubtractedTQ
    \/ \E in \in SeqsUpTo(HitPool, MaxHits) : AppendRawHitInfoAgain(in)

SpecResort == Init /\ [][NextResort]_vars

(***************************************************************************)
(* Events read in one or two trigger windows with hits late enough to be   *)
(* stored under a dead time of 1 us, through the whole chain and Clear.    *)
(***************************************************************************)
\* in-gate hits of PMT 1 and PMT 2 more than 1000 ns after 0, a hit of the
\* charge and PMT of the second one on another time base, and that hit
\* out of gate
WindowHitPool ==
    { Hit(1045, 3, 1, InGateBit), Hit(2100, 1, 2, InGateBit),
      Hit(45, 1, 2, InGateBit), Hit(45, 1, 2, 0) }

WindowInputs == SeqsUpTo(WindowHitPool, MaxHits)

NextWindows ==
    \/ \E in \in WindowInputs : AppendRawHitInfo(in)
    \/ SetToFSubtractedTQ
    \/ SearchCaptureCandidates
    \/ SetCandidateVariables
    \/ Clear

SpecWindows == Init /\ [][NextWindows]_vars

(***************************************************************************)
(* Properties of the search (SpecSearch).                                  *)
(***************************************************************************)
Searched == pc = "searched"

\* anchor time of a saved candidate
AnchorTime(cand) == At(vSortedT_ToF, cand.hitID)

\* candidates saved inside the loop
InLoop == { i \in 1..Len(vCandidates) : ~vCandidates[i].afterLoop }

\* number of candidates the search saves under the tag conditions c
NumCandidates(c) ==
    Len(SearchResult(c, SearchLocals(<<>>, 0, tCleared, tCleared)).cands)

\* the tag conditions of the constructor
DefaultConditions ==
    /\ N10TH = NTagDefault_N10TH /\ N10MX = NTagDefault_N10MX
    /\ N200MX = NTagDefault_N200MX /\ T0TH = NTagDefault_T0TH
    /\ TMINPEAKSEP = NTagDefault_TMINPEAKSEP

\* amounts by which an upper limit is raised
Raises == {1, 2, 200}

\* C1: no two candidates of one search, neither of them the one saved after
\* the loop, have anchor times that differ by TMINPEAKSEP or less.
C1_MinPeakSeparation ==
    Searched =>
        \A i, j \in InLoop :
            i < j => Abs(AnchorTime(vCandidates[j]) - AnchorTime(vCandidates[i]))
                        > TMINPEAKSEP

C3_MonotonicWidening ==
    Searched =>
        \A d \in Raises :
            /\ NumCandidates([Conditions EXCEPT !.N10MX = @ + d]) >= Len(vCandidates)
            /\ NumCandidates([Conditions EXCEPT !.N200MX = @ + d]) >= Len(vCandidates)

\* C3 as amended: raising N200MX never decreases the number of candidates of
\* the search (raising N10MX can).
C3_N200Widening ==
    Searched =>
        \A d \in Raises :
            NumCandidates([Conditions EXCEPT !.N200MX = @ + d]) >= Len(vCandidates)

\* a search that saves more candidates once N200MX is raised
C3_Witness ==
    /\ Searched
    /\ \E d \in Raises :
        NumCandidates([Conditions EXCEPT !.N200MX = @ + d]) > Len(vCandidates)

\* the two bursts of 10 are saved as two candidates of 10 hits, anchored at
\* the first hit of each burst
TwoBurstsFound(t0) ==
    /\ Len(vCandidates) = 2
    /\ \A i \in 1..2 : Len(vCandidates[i].resTVec) = 10
    /\ AnchorTime(vCandidates[1]) = t0
    /\ AnchorTime(vCandidates[2]) = t0 + 100

C5_NoHitReachesN10TH ==
    (Searched /\ \A i \in 0..(Len(vSortedT_ToF) - 1) :
                    GetNhitsFromStartIndex(vSortedT_ToF, i, tWidth) < N10TH)
        => vCandidates = <<>>

\* the earliest sorted hit whose forward 10 ns count is the largest
EarliestLargestN10 ==
    CHOOSE h \in 0..(Len(vSortedT_ToF) - 1) :
        /\ \A i \in 0..(Len(vSortedT_ToF) - 1) :
            GetNhitsFromStartIndex(vSortedT_ToF, i, tWidth)
                <= GetNhitsFromStartIndex(vSortedT_ToF, h, tWidth)
        /\ \A i \in 0..(h - 1) :
            GetNhitsFromStartIndex(vSortedT_ToF, i, tWidth)
                < GetNhitsFromStartIndex(vSortedT_ToF, h, tWidth)

\* one candidate, anchored at the earliest hit of the largest count
OneCandidateAtLargestN10 ==
    /\ Len(vCandidates) = 1
    /\ vCandidates[1].hitID = EarliestLargestN10

\* C6 as claimed: 15 hits within 10 ns followed 2 ns later by 15 hits within
\* 10 ns give exactly 1 candidate of multiplicity 15, anchored at the hit of
\* the larger count, the earliest one on a tie.
C6_DoubleBurstFifteen ==
    (Searched /\ DefaultConditions
        /\ vSortedT_ToF \in {DoubleBurstSpread(tLate), DoubleBurstPacked(tLate)})
        => /\ OneCandidateAtLargestN10
           /\ Len(vCandidates[1].resTVec) = 15

\* C6 as amended: such a series past T0TH gives, under the default tag
\* conditions, exactly 1 candidate, anchored at the earliest hit of the
\* largest forward 10 ns count; its multiplicity is that count, which is 15
\* when no 10 ns window reaches into the other burst and is 28 when the 14
\* last hits of the first burst and the 14 first hits of the second lie
\* within 10 ns.
C6_DoubleBurstLargestCount ==
    /\ (Searched /\ DefaultConditions
            /\ vSortedT_ToF \in {DoubleBurstSpread(tLate), DoubleBurstPacked(tLate)})
            => /\ OneCandidateAtLargestN10
               /\ Len(vCandidates[1].resTVec)
                    = GetNhitsFromStartIndex(vSortedT_ToF, EarliestLargestN10, tWidth)
               /\ Len(vCandidates[1].resTVec) >= 15
    /\ (Searched /\ DefaultConditions /\ vSortedT_ToF = DoubleBurstSpread(tLate))
            => /\ Len(vCandidates[1].resTVec) = 15
               /\ vCandidates[1].hitID = 0
    /\ (Searched /\ DefaultConditions /\ vSortedT_ToF = DoubleBurstPacked(tLate))
            => /\ Len(vCandidates[1].resTVec) = 28
               /\ vCandidates[1].hitID = 1

C6_Witness ==
    /\ Searched /\ DefaultConditions
    /\ vSortedT_ToF = DoubleBurstPacked(tLate)
    /\ Len(vCandidates) = 1
    /\ Len(vCandidates[1].resTVec) = 28

\* C7: the search of an empty hit series (nqiskz = 0) saves no candidate and
\* does not call SavePeakFromHit, whatever the tag conditions.
C7_EmptySeriesNoCandidate ==
    (Searched /\ nqiskz = 0) => (vCandidates = <<>> /\ nCandidates = 0)

(***************************************************************************)
(* Properties of the sort (Spec).                                          *)
(***************************************************************************)
Sorted == pc \in {"sorted", "searched"}

\* vSortedT_ToF is non-decreasing
Ascending ==
    \A k \in 1..(Len(vSortedT_ToF) - 1) : vSortedT_ToF[k] <= vSortedT_ToF[k + 1]

\* hits of equal time keep the order of the raw hit buffer
KeepsRawOrder ==
    \A k, l \in 1..Len(sortedIndex) :
        (k < l /\ vSortedT_ToF[k] = vSortedT_ToF[l]) => sortedIndex[k] < sortedIndex[l]

\* sortedIndex names every hit of the buffer once, and vSortedT_ToF holds
\* the times of the hits it names
SortedIsPermutation ==
    /\ Len(sortedIndex) = nqiskz /\ Len(vSortedT_ToF) = nqiskz
    /\ { sortedIndex[k] : k \in 1..nqiskz } = 0..(nqiskz - 1)
    /\ \A k \in 1..nqiskz : vSortedT_ToF[k] = At(vUnsortedT_ToF, sortedIndex[k])

\* C8 as claimed: the sort is ascending and stable: vSortedT_ToF is
\* non-decreasing and hits of equal corrected time keep their relative order
\* of the raw hit buffer.
C8_AscendingStableSort ==
    Sorted => (Ascending /\ KeepsRawOrder)

\* C8 as amended: the sort is ascending: vSortedT_ToF is non-decreasing and
\* holds the corrected times of every hit of the buffer once; the order of
\* hits of equal corrected time is left to TMath::Sort.
C8_AscendingSort ==
    Sorted => (Ascending /\ SortedIsPermutation)

\* a sort that had to reorder the buffer
C8_Witness ==
    /\ Sorted /\ nqiskz >= 2
    /\ \E k \in 1..(nqiskz - 1) : vUnsortedT_ToF[k] > vUnsortedT_ToF[k + 1]

\* C9: after the sort, vUnsortedT_ToF[reverseIndex[k]] = vSortedT_ToF[k] for
\* every sorted index k: reverseIndex leads from a sorted position back to
\* the position in the hit buffer.
C9_ReverseIndexRoundTrip ==
    Sorted =>
        \A k \in 0..(nqiskz - 1) :
            At(vUnsortedT_ToF, At(reverseIndex, k)) = At(vSortedT_ToF, k)

\* C10: at every position j of the slice of every candidate, rawTVec[j] is
\* the raw time of the hit that resTVec[j], pmtQVec[j] and cabIVec[j] belong
\* to.
C10_SliceOfOneHit ==
    Searched =>
        \A i \in 1..Len(vCandidates) :
            \A j \in 1..Len(vCandidates[i].resTVec) :
                LET hit == At(sortedIndex, vCandidates[i].hitID + j - 1)
                IN  /\ vCandidates[i].resTVec[j] = At(vUnsortedT_ToF, hit)
                    /\ vCandidates[i].pmtQVec[j] = At(vQISKZ, hit)
                    /\ vCandidates[i].cabIVec[j] = At(vCABIZ, hit)
                    /\ vCandidates[i].rawTVec[j] = At(vTISKZ, hit)

(***************************************************************************)
(* Properties of the event arrays of candidate variables (Spec).           *)
(***************************************************************************)
\* the array of name k holds one value per candidate, that of candidate i
\* at position i
ArrayOfCandidates(map, k, varMapOf(_)) ==
    /\ ~map[k].null
    /\ Len(map[k].v) = Len(vCandidates)
    /\ \A i \in 1..Len(vCandidates) : map[k].v[i] = varMapOf(vCandidates[i])[k]

IVarMapOf(cand) == cand.iVarMap
FVarMapOf(cand) == cand.fVarMap

AllEmpty(map) == \A k \in DOMAIN map : map[k].v = <<>>

\* C13: Clear empties every array of iCandidateVarMap and fCandidateVarMap
\* and keeps their names; once an event has fixed the names, no step changes
\* them or makes them be fixed anew.
C13_ClearKeepsNames ==
    [][ /\ (pc = "extracted" /\ pc' = "idle") =>
            /\ AllEmpty(iCandidateVarMap') /\ AllEmpty(fCandidateVarMap')
            /\ DOMAIN iCandidateVarMap' = DOMAIN iCandidateVarMap
            /\ DOMAIN fCandidateVarMap' = DOMAIN fCandidateVarMap
        /\ candidateVariablesInitialized =>
            /\ candidateVariablesInitialized'
            /\ DOMAIN iCandidateVarMap' = DOMAIN iCandidateVarMap
            /\ DOMAIN fCandidateVarMap' = DOMAIN fCandidateVarMap
            /\ DOMAIN iCandidateVarMap # {} /\ DOMAIN fCandidateVarMap # {} ]_vars

\* a later event, without candidates, after the names were fixed and the
\* arrays cleared
C13_Witness ==
    /\ pc = "extracted"
    /\ vCandidates = <<>>
    /\ candidateVariablesInitialized
    /\ DOMAIN iCandidateVarMap = {"N10"} /\ AllEmpty(iCandidateVarMap)
    /\ DOMAIN fCandidateVarMap = {"ReconCT"} /\ AllEmpty(fCandidateVarMap)

(***************************************************************************)
(* Properties of the ToF subtraction (SpecToF).                            *)
(***************************************************************************)
\* C15 as claimed: a hit of a sensor id without a row in the geometry
\* table (id 0, or an id above MAXPM) never gets a ToF: the event is not
\* read and sorted with such a hit, and no hit is left out in silence.
C15_OutOfRangeIsRaised ==
    [][ /\ pc' = "sorted" =>
            \A iHit \in 1..Len(vCABIZ') : vCABIZ'[iHit] \in 1..MAXPM
        /\ \A in \in SeqsUpTo(ToFHitPool, MaxHits) :
            (AppendRawHitInfo(in) /\ \E iHit \in 1..Len(in) : in[iHit].icabiz > MAXPM)
                => pc' = "error" ]_vars

\* C16 as claimed: a call of GetToFSubtracted with T and PMTID of two
\* lengths ends in a typed error of that call and leaves the process alive.
C16_MismatchIsTypedError ==
    Len(tofCall.T) # Len(tofCall.PMTID) =>
        /\ tofCall.status = "error"
        /\ pc # "crashed"

(***************************************************************************)
(* Properties of a window processed twice (SpecTwice).                     *)
(***************************************************************************)
\* a run after the first Clear has filled the arrays of the event
SecondRunDone == pc = "extracted" /\ firstRun.done

\* C17: a window processed, cleared and processed again from the same hits
\* under the same tag conditions gives the candidates of the first run
\* (ids, anchors' hits, the slices of raw and residual times, charges and
\* cables, variables) and the arrays of the first run.
C17_SecondRunEqualsFirst ==
    SecondRunDone =>
        /\ vSortedT_ToF = firstRun.vSortedT_ToF
        /\ nCandidates = firstRun.nCandidates
        /\ vCandidates = firstRun.vCandidates
        /\ iCandidateVarMap = firstRun.iCandidateVarMap
        /\ fCandidateVarMap = firstRun.fCandidateVarMap

\* a second run with two candidates, found among hits of one time
C17_Witness ==
    /\ SecondRunDone
    /\ Len(vCandidates) >= 2
    /\ \E i, j \in 1..Len(vUnsortedT_ToF) : i # j /\ vUnsortedT_ToF[i] = vUnsortedT_ToF[j]
    /\ Len(iCandidateVarMap["N10"].v) = Len(vCandidates)

(***************************************************************************)
(* Properties of the candidates of one event.                              *)
(***************************************************************************)
\* the sorted hit indices of the slice [hitID, hitID + n10) of a candidate
SliceIndices(cand) == cand.hitID..(cand.hitID + Len(cand.resTVec) - 1)

\* C18 as claimed (Spec): the candidates of one event carry the ids 0, 1,
\* 2, ... in the order they were saved, a candidate of a larger id has a
\* strictly later anchor time, and Clear leaves no candidate, so that the
\* ids of the next event start at 0 again.
C18_IdsAndAnchorsIncrease ==
    /\ \A i \in 1..Len(vCandidates) : vCandidates[i].candidateID = i - 1
    /\ \A i, j \in 1..Len(vCandidates) :
          i < j => AnchorTime(vCandidates[i]) < AnchorTime(vCandidates[j])
    /\ pc = "idle" => vCandidates = <<>>

\* C19 as claimed (SpecSearch): no sorted hit index belongs to the slices
\* of two candidates of one search, whatever TMINPEAKSEP is.
C19_SlicesDisjoint ==
    Searched =>
        \A i, j \in 1..Len(vCandidates) :
            i # j => SliceIndices(vCandidates[i]) \cap SliceIndices(vCandidates[j]) = {}

(***************************************************************************)
(* Properties of the anchor the loop tracks (SpecSearch).                  *)
(***************************************************************************)
\* the locals before hit 0, before hit 1, ... and after the last hit
RECURSIVE LoopStates(_, _, _)
LoopStates(c, s, iHit) ==
    IF iHit >= nqiskz THEN <<s>>
    ELSE LET next == SearchStep(c, s, iHit)
         IN  IF next.iHitPrevious <= iHit THEN <<s>> \o LoopStates(c, next, iHit + 1)
             ELSE <<s>>

\* the anchor the loop tracks
Anchor(s) == <<s.iHitPrevious, s.t0Previous, s.N10Previous, s.N200Previous>>

\* hit iHit passes the T0 and the N10 tests of the loop
Eligible(c, iHit) ==
    /\ ~BelowT0(c, At(vSortedT_ToF, iHit))
    /\ InN10Range(c, GetNhitsFromStartIndex(vSortedT_ToF, iHit, tWidth))

\* hit iHit resets N10Previous: it is separated from the anchor of s
Separated(c, s, iHit) ==
    Eligible(c, iHit) /\ At(vSortedT_ToF, iHit) - s.t0Previous > c.TMINPEAKSEP

\* hit iHit, eligible and not separated from the anchor of s, has the
\* count of the anchor and leaves the anchor where it is
TieKept(c, s, next, iHit) ==
    /\ Eligible(c, iHit)
    /\ ~Separated(c, s, iHit)
    /\ s.N10Previous >= 1
    /\ GetNhitsFromStartIndex(vSortedT_ToF, iHit, tWidth) = s.N10Previous
    /\ Anchor(next) = Anchor(s)

\* the states of the loop of this event
LoopOfEvent ==
    LoopStates(Conditions, SearchLocals(<<>>, 0, tCleared, tCleared), 0)

\* C20: at a hit that is not separated from the tracked anchor, the tracked
\* count does not decrease; the anchor changes only to this hit and only if
\* its N10 is strictly greater than the tracked count; an eligible hit of an
\* equal or smaller count leaves the anchor as it is.
C20_AnchorOnlyByGreaterCount ==
    pc \in {"sorted", "searched"} =>
        LET st == LoopOfEvent
        IN  \A k \in 1..(Len(st) - 1) :
                LET s == st[k]
                    next == st[k + 1]
                    iHit == k - 1
                    N10_iHit == GetNhitsFromStartIndex(vSortedT_ToF, iHit, tWidth)
                IN  ~Separated(Conditions, s, iHit) =>
                        /\ next.N10Previous >= s.N10Previous
                        /\ Anchor(next) # Anchor(s) =>
                              /\ Eligible(Conditions, iHit)
                              /\ N10_iHit > s.N10Previous
                              /\ next.iHitPrevious = iHit
                              /\ next.N10Previous = N10_iHit
                        /\ (Eligible(Conditions, iHit) /\ N10_iHit <= s.N10Previous) =>
                              Anchor(next) = Anchor(s)

\* an event searched in which a hit that is eligible and not separated from
\* the anchor has the count of the anchor and leaves the anchor, the earlier
\* hit, where it is
C20_Witness ==
    /\ Searched
    /\ LET st == LoopOfEvent
       IN  \E k \in 1..(Len(st) - 1) :
               /\ TieKept(Conditions, st[k], st[k + 1], k - 1)
               /\ st[k].iHitPrevious < k - 1

(***************************************************************************)
(* Properties of the candidates a search saves (SpecSearch).               *)
(***************************************************************************)
\* N10 of the sorted hit iHit
N10At(iHit) == GetNhitsFromStartIndex(vSortedT_ToF, iHit, tWidth)

\* N200 of the sorted hit iHit
N200At(iHit) ==
    GetNhitsFromCenterTime(vSortedT_ToF, At(vSortedT_ToF, iHit) + tCenterShift, tWidth200)

\* the sorted hits that pass the T0 and the N10 tests of the loop
EligibleHits == { iHit \in 0..(Len(vSortedT_ToF) - 1) : Eligible(Conditions, iHit) }

\* C21 as claimed: no eligible hit within TMINPEAKSEP of the anchor time of
\* a saved candidate has an N10 strictly larger than that of the anchor.
C21_BestOfNeighbourhood ==
    Searched =>
        \A i \in 1..Len(vCandidates) :
            \A iHit \in EligibleHits :
                Abs(At(vSortedT_ToF, iHit) - AnchorTime(vCandidates[i])) <= TMINPEAKSEP
                    => N10At(iHit) <= N10At(vCandidates[i].hitID)

\* C22 as claimed: no candidate of a search, the one saved after the loop
\* included, has an anchor whose N200 is N200MX or more.
C22_NoCandidateInWideBurst ==
    Searched =>
        \A i \in 1..Len(vCandidates) : N200At(vCandidates[i].hitID) < N200MX

\* the candidates saved after the loop
AfterLoop == { i \in 1..Len(vCandidates) : vCandidates[i].afterLoop }

\* the locals when the loop of this event has ended
EndOfLoop == LoopOfEvent[Len(LoopOfEvent)]

\* a hit of this event was taken as the anchor
AnchorTaken ==
    \E k \in 1..(Len(LoopOfEvent) - 1) : Anchor(LoopOfEvent[k + 1]) # Anchor(LoopOfEvent[k])

\* C23: after the loop one more candidate is saved, for the last tracked
\* anchor, exactly when N10Previous is N10TH or more; with N10TH >= 1 that
\* is exactly when a hit of the event was taken as the anchor.
C23_LastPeakSaved ==
    Searched =>
        /\ Cardinality(AfterLoop) <= 1
        /\ AfterLoop # {} <=> EndOfLoop.N10Previous >= N10TH
        /\ \A i \in AfterLoop :
              /\ i = Len(vCandidates)
              /\ vCandidates[i].hitID = EndOfLoop.iHitPrevious
        /\ N10TH >= 1 => (AfterLoop # {} <=> AnchorTaken)

\* a search with N10TH >= 1 that took several anchors and saved the last
\* one after the loop
C23_Witness ==
    /\ Searched
    /\ N10TH >= 1
    /\ AfterLoop # {}
    /\ Len(vCandidates) >= 2
    /\ EndOfLoop.iHitPrevious > 0

\* C24 as claimed: every candidate of a search is anchored at a hit of the
\* event that passed the anchor tests (time not below T0TH, N10 within
\* N10TH..N10MX), whatever the tag conditions are.
C24_AnchorsPassedTheTests ==
    Searched =>
        \A i \in 1..Len(vCandidates) :
            /\ vCandidates[i].hitID < Len(vSortedT_ToF)
            /\ Eligible(Conditions, vCandidates[i].hitID)

\* the eligible hits whose time is strictly past T0TH
HitsPastT0 ==
    { iHit \in EligibleHits : At(vSortedT_ToF, iHit) > T0TH * 1000 }

\* the largest N200 among the hits of H, 0 if there is none
LargestN200(H) ==
    IF H = {} THEN 0
    ELSE CHOOSE n \in { N200At(iHit) : iHit \in H } :
             \A iHit \in H : N200At(iHit) <= n

\* the earliest hit of H with the largest N200
EarliestLargestN200(H) ==
    CHOOSE iHit \in H :
        /\ N200At(iHit) = LargestN200(H)
        /\ \A j \in H : N200At(j) = LargestN200(H) => iHit <= j

C27_NoHitSavedTwice ==
    Searched =>
        \A i, j \in 1..Len(vCandidates) :
            i # j => vCandidates[i].hitID # vCandidates[j].hitID

(***************************************************************************)
(* Properties of the sorted vectors of an event read in several windows    *)
(* (SpecResort).                                                           *)
(***************************************************************************)
\* C26 as claimed: after every SetToFSubtractedTQ since the last Clear, a
\* second one after more hits were appended included, the sorted vectors
\* all have the length nqiskz of the raw hit buffer and every sorted
\* position holds the time, the charge and the cable of one raw hit.
C26_SortedVectorsParallel ==
    Sorted =>
        /\ Len(vSortedT_ToF) = nqiskz
        /\ Len(vSortedQ) = nqiskz
        /\ Len(vSortedPMTID) = nqiskz
        /\ \A i \in 1..Len(vSortedT_ToF) :
              \E o \in 1..nqiskz :
                  /\ vSortedT_ToF[i] = vUnsortedT_ToF[o]
                  /\ vSortedQ[i] = vQISKZ[o]
                  /\ vSortedPMTID[i] = vCABIZ[o]

(***************************************************************************)
(* Properties of the raw hit buffer (Spec).                                *)
(***************************************************************************)
\* the positions of the raw hit buffer that hold a hit of PMT p
StoredOf(p) == { o \in 1..Len(vCABIZ) : vCABIZ[o] = p }

\* C28 as claimed: an in-gate hit is dropped as repetitive only against an
\* earlier hit of its PMT stored in this event, so the first in-gate hit of
\* a PMT is never dropped: an event with a dropped hit has a stored hit.
C28_DropNeedsEarlierHit ==
    nRemovedHits > 0 => \E p \in 0..MAXPM : StoredOf(p) # {}

(***************************************************************************)
(* Properties of the raw hit buffer over one or two windows (SpecWindows). *)
(***************************************************************************)
\* positions o1 < o2 of the raw hit buffer hold hits of one PMT with no
\* hit of that PMT between them
ConsecutiveOfPMT(o1, o2) ==
    /\ o1 < o2
    /\ vCABIZ[o1] = vCABIZ[o2]
    /\ \A o \in (o1 + 1)..(o2 - 1) : vCABIZ[o] # vCABIZ[o1]

\* C29: at any time after a Clear, two hits of one PMT that follow each
\* other in the raw hit buffer have stored times TRBNWIDTH*1000 ns or more
\* apart, and nTotalHits is the length of the buffer plus nRemovedHits.
C29_DeadTimeAndCounts ==
    /\ \A o1, o2 \in 1..Len(vTISKZ) :
          ConsecutiveOfPMT(o1, o2)
              => Abs(vTISKZ[o2] - vTISKZ[o1]) >= TRBNWIDTH * 1000
    /\ Len(vTISKZ) = Len(vQISKZ) /\ Len(vTISKZ) = Len(vCABIZ)
    /\ nTotalHits = Len(vTISKZ) + nRemovedHits

\* an event with a dead time, a dropped hit and two stored hits of one PMT
C29_Witness ==
    /\ TRBNWIDTH > 0
    /\ nRemovedHits > 0
    /\ \E o1, o2 \in 1..Len(vTISKZ) : ConsecutiveOfPMT(o1, o2)

\* the first hit of the window in with the charge and the PMT of the last
\* stored hit, 0 if there is none
CoincidentAt(in) ==
    LET like == { k \in 1..Len(in) :
                    /\ in[k].qiskz = vQISKZ[Len(vQISKZ)]
                    /\ in[k].icabiz = vCABIZ[Len(vCABIZ)] }
    IN  IF like = {} THEN 0 ELSE CHOOSE k \in like : \A j \in like : k <= j

InGate(h) == (h.ihtiflz \div InGateBit) % 2 = 1

\* the hits stored by a step are hits of the window in other than hit k, in
\* the order of the window, those before k at their own time and those
\* after k at their time plus off
StoredAround(in, k, off) ==
    LET old == Len(vTISKZ)
        new == Len(vTISKZ') - old
    IN  \E f \in [1..new -> 1..Len(in)] :
            /\ \A m \in 1..(new - 1) : f[m] < f[m + 1]
            /\ \A m \in 1..new :
                  /\ f[m] # k
                  /\ InGate(in[f[m]])
                  /\ vTISKZ'[old + m] = in[f[m]].tiskz + (IF f[m] < k THEN 0 ELSE off)
                  /\ vQISKZ'[old + m] = in[f[m]].qiskz
                  /\ vCABIZ'[old + m] = in[f[m]].icabiz

====
